---- MODULE Spec2Model ----
(***************************************************************************)
(* Connection lifecycle of the kamens-tests firmware.                      *)
(*                                                                         *)
(*   Spec            the station build: app_main, wifi_manager_start, the  *)
(*                   Wi-Fi event handler with its retry counter, and the   *)
(*                   two collaborators the handler calls (LED, web server) *)
(*   SpecPeripheral  the BLE peripheral component (components/BLE/BLE.c):  *)
(*                   GAP event handler, sync/reset callbacks, public API   *)
(*   SpecCentral     the BLE central component                             *)
(*                   (station/components/BLE/BLE.c), in the same way       *)
(*   SpecBle         a firmware image holding either of the two roles      *)
(*   SpecAddr        addr_to_string of both components on sample addresses *)
(*                                                                         *)
(* Two tasks run in Spec: the startup task (app_main, blocked in           *)
(* xEventGroupWaitBits) and the event-loop task that runs                  *)
(* wifi_event_handler once per delivered event.  The handler runs to       *)
(* completion before the next event is dispatched, but the startup task    *)
(* may run between any two of its calls, so the GOT_IP branch is split at  *)
(* its calls.  The order in which the driver posts events is an input.     *)
(***************************************************************************)
EXTENDS Integers, Sequences, FiniteSets, TLC

\* ---------------------------------------------------------------- bounds
\* Station events (STA_DISCONNECTED, GOT_IP) delivered in one run.
MaxEvents == 9
\* GAP events and API calls handled by the peripheral in one run.
MaxBleEvents == 5
\* Connection handles the NimBLE host hands out are 0..MaxHandle.
MaxHandle == 1
\* Storage manager calls made in one run.
MaxStorageOps == 4
\* GAP events and resets handled in one run of the store-by-store peripheral.
MaxRaceEvents == 3

\* Byte values an address is built from, next to the bytes 01..06 it starts
\* with: 0x00, 0x0A, 0xAB, 0xFF.
ByteSamples == {0, 10, 171, 255}

\* ------------------------------------------------------ program constants
\* CONFIG_ESP_MAXIMUM_RETRY, the retry budget of the station.
ESP_MAXIMUM_RETRY == 3
\* "No connection" value of s_conn_handle.
BLE_HS_CONN_HANDLE_NONE == 65535

\* Size of s_stored_string, terminating NUL included.
STRING_MAX_LEN == 64

\* sizeof(addr_str) at every call of addr_to_string.
AddrStrSize == 18

WIFI_CONNECTED_BIT == "WIFI_CONNECTED_BIT"
WIFI_FAIL_BIT == "WIFI_FAIL_BIT"

VARIABLES
    \* --- station (WiFi.c)
    s_retry_num,     \* static int s_retry_num
    bits,            \* s_wifi_event_group: the set of bits that are set
    hpc,             \* position of wifi_event_handler: "idle" when not running
    staStartDue,     \* esp_wifi_start succeeded, STA_START not yet delivered
    connectCalls,    \* esp_wifi_connect calls issued so far
    \* --- startup task (station_example_main.c, wifi_manager_start)
    mainPc,          \* position of app_main
    waitBits,        \* value xEventGroupWaitBits returns
    outcome,         \* branch wifi_manager_start took after the wait
    returns,         \* times wifi_manager_start has returned
    \* --- collaborators
    s_led_on,        \* led_control.c: static int s_led_on
    server,          \* WEB_Server.c: static httpd_handle_t server (FALSE = NULL)
    calls,           \* call counters of the collaborators
    \* --- history of the station events
    hist,
    \* --- BLE peripheral (components/BLE/BLE.c) and the NimBLE host under it
    s_is_connected,  \* static bool s_is_connected
    s_conn_handle,   \* static uint16_t s_conn_handle
    host,            \* "off", "started" (host task runs, not synced), "synced",
                     \* "failed" (host task runs on a port that did not come up)
    advActive,       \* the host is advertising
    ble,             \* history of the BLE events
    \* --- BLE central (station/components/BLE/BLE.c) and its NimBLE host
    cen_is_connected, \* static bool s_is_connected of the central
    cen_conn_handle,  \* static uint16_t s_conn_handle of the central
    cenHost,          \* "off", "started", "synced"
    scanActive,       \* the host is scanning (ble_gap_disc procedure)
    connPending,      \* a ble_gap_connect procedure is in flight
    cen,              \* history of the central's events
    \* --- address formatting (addr_to_string of both BLE components)
    addr,             \* const uint8_t *addr: the six bytes, addr[1] is val[0]
    addr_str,         \* char addr_str[18] as the peripheral's copy fills it
    cen_addr_str,     \* char addr_str[18] as the central's copy fills it
    \* --- storage manager (Storage_Manager.c) and the NVS partition under it
    s_stored_string,  \* static char s_stored_string[STRING_MAX_LEN]
    flash,            \* value committed under STRING_KEY, or NoKey
    sto,              \* history of the storage calls
    \* --- the peripheral store by store (SpecRace)
    gapPc,            \* position of the host task inside a handler
    apiPc,            \* position of the task that calls the public API
    obs               \* what that task has read, passed and been returned

stationVars == <<s_retry_num, bits, hpc, staStartDue, connectCalls>>
mainVars == <<mainPc, waitBits, outcome, returns>>
sideVars == <<s_led_on, server, calls>>
bleVars == <<s_is_connected, s_conn_handle, host, advActive, ble>>
centralVars == <<cen_is_connected, cen_conn_handle, cenHost, scanActive,
                 connPending, cen>>
codecVars == <<addr, addr_str, cen_addr_str>>
storageVars == <<s_stored_string, flash, sto>>
raceVars == <<gapPc, apiPc, obs>>
restVars == <<centralVars, codecVars, storageVars, raceVars>>
vars == <<stationVars, mainVars, sideVars, hist, bleVars, restVars>>

TerminalBits == {WIFI_CONNECTED_BIT, WIFI_FAIL_BIT}

\* ------------------------------------------------------------------ Init
HistInit ==
    [ n |-> 0,            \* STA_DISCONNECTED / GOT_IP events dispatched
      last |-> "none",    \* the event dispatched last
      before |-> 0,       \* s_retry_num when it was dispatched
      bitsBefore |-> {},  \* the bits of the event group at that time
      consec |-> 0,       \* STA_DISCONNECTED events since start or last GOT_IP
      disc |-> 0,         \* STA_DISCONNECTED events in all
      gotIp |-> 0,        \* GOT_IP events in all
      connectsBy |-> 0,   \* esp_wifi_connect calls made for the last event
      runConnects |-> 0,  \* the same, since start or last GOT_IP
      failSetsBy |-> 0,   \* xEventGroupSetBits(FAIL) calls made for it
      runFailSets |-> 0,  \* the same, since start or last GOT_IP
      failSets |-> 0,     \* xEventGroupSetBits(FAIL) calls in all
      connSets |-> 0,     \* xEventGroupSetBits(CONNECTED) calls in all
      webBeforeBit |-> 0, \* web_server_start calls made with CONNECTED clear
      ledAtReturn |-> 0,  \* led_control_set(1) calls when the wait returned
      webAtReturn |-> 0 ] \* web_server_start calls when the wait returned

CallsInit ==
    [ led |-> 0,         \* led_control_set(1) calls
      web |-> 0,         \* web_server_start calls
      afterStart |-> 0,  \* those of them made with the handle already set
      noops |-> 0,       \* those of them that returned at the handle check
      tries |-> 0,       \* httpd_start calls
      httpd |-> 0,       \* those of them that returned ESP_OK
      regs |-> 0 ]       \* httpd_register_uri_handler calls

BleInit ==
    [ n |-> 0,                \* GAP events and API calls handled
      last |-> "none",        \* the event or call handled last
      wasConnected |-> FALSE, \* s_is_connected when it was dispatched
      wasHandle |-> BLE_HS_CONN_HANDLE_NONE, \* s_conn_handle at that time
      wasAdv |-> FALSE,       \* advertising was active at that time
      afterStop |-> FALSE,    \* the step before it was a stop that returned 0
      afterReset |-> FALSE,   \* the step before it was the reset callback
      setFieldsBy |-> 0,      \* ble_gap_adv_set_fields calls made for it
      advStartsBy |-> 0,      \* ble_gap_adv_start calls made for it
      rc |-> "0" ]            \* what the last public call returned

CenInit ==
    [ n |-> 0,                \* GAP events and API calls handled
      last |-> "none",        \* the event or call handled last
      wasConnected |-> FALSE, \* s_is_connected when it was dispatched
      wasPending |-> FALSE,   \* a connect was in flight when it was dispatched
      wasScan |-> FALSE,      \* a scan was active when it was dispatched
      wasHandle |-> BLE_HS_CONN_HANDLE_NONE, \* s_conn_handle at that time
      afterStop |-> FALSE,    \* the step before it was a stop that returned 0
      afterReset |-> FALSE,   \* the step before it was the reset callback
      cancelsBy |-> 0,        \* ble_gap_disc_cancel calls made for it
      connectsBy |-> 0,       \* ble_gap_connect calls made for it
      scanAtConnect |-> FALSE, \* a scan was active when that call was made
      discsBy |-> 0,          \* ble_gap_disc calls made for it
      rc |-> "0" ]            \* what the last call into the host returned

\* A C string is its text, named by id, cut to len characters.
Str(id, len) == [id |-> id, len |-> len]

EmptyString == Str("", 0)

\* The flash holds no value under STRING_KEY.
NoKey == Str("NoKey", 0)

StoInit ==
    [ n |-> 0,            \* storage manager calls made
      last |-> "none",    \* the call made last
      commitOk |-> TRUE ] \* what nvs_commit returned in it, if it got there

ObsInit ==
    [ read |-> FALSE,        \* the connection state has been read
      seenConn |-> FALSE,    \* s_is_connected as read last
      seenHandle |-> BLE_HS_CONN_HANDLE_NONE, \* s_conn_handle as read last
      last |-> "none",       \* the public function called last
      ret |-> "none",        \* what it returned ("none" while it runs)
      reg |-> BLE_HS_CONN_HANDLE_NONE, \* handle loaded for the guard
      termCalled |-> FALSE,  \* the last disconnect called ble_gap_terminate
      termHandle |-> 0,      \* the handle it passed
      advStartConnected |-> FALSE ] \* start_advertising() ran with the flag set

Init ==
    /\ s_retry_num = 0
    /\ bits = {}
    /\ hpc = "idle"
    /\ staStartDue = FALSE
    /\ connectCalls = 0
    /\ mainPc = "boot"
    /\ waitBits = {}
    /\ outcome = "none"
    /\ returns = 0
    /\ s_led_on = 0
    /\ server = FALSE
    /\ calls = CallsInit
    /\ hist = HistInit
    /\ s_is_connected = FALSE
    /\ s_conn_handle = BLE_HS_CONN_HANDLE_NONE
    /\ host = "off"
    /\ advActive = FALSE
    /\ ble = BleInit
    /\ cen_is_connected = FALSE
    /\ cen_conn_handle = BLE_HS_CONN_HANDLE_NONE
    /\ cenHost = "off"
    /\ scanActive = FALSE
    /\ connPending = FALSE
    /\ cen = CenInit
    /\ addr = <<1, 2, 3, 4, 5, 6>>
    /\ addr_str = <<>>
    /\ cen_addr_str = <<>>
    /\ s_stored_string = EmptyString
    /\ flash = NoKey
    /\ sto = StoInit
    /\ gapPc = "idle"
    /\ apiPc = "idle"
    /\ obs = ObsInit

\* -------------------------------------------------- FreeRTOS event group
\* xEventGroupWaitBits(group, CONNECTED | FAIL, pdFALSE, pdFALSE, portMAX_DELAY):
\* the wait is over when any bit of the mask is set; there is no timeout.
WaitSatisfied_NoWait(b) == TRUE

WaitSatisfied(b) == b \cap TerminalBits /= {}

\* xEventGroupSetBits(s_wifi_event_group, b): the bit is set; a task blocked
\* in xEventGroupWaitBits on the group is made ready and is handed the value
\* the group has at that moment.  Bits are never cleared (pdFALSE, and no
\* xEventGroupClearBits in the file).
xEventGroupSetBits(b) ==
    /\ bits' = bits \cup {b}
    /\ IF mainPc = "blocked" /\ WaitSatisfied(bits \cup {b})
          THEN /\ mainPc' = "ready"
               /\ waitBits' = bits \cup {b}
          ELSE UNCHANGED <<mainPc, waitBits>>
    /\ UNCHANGED <<outcome, returns>>

\* --------------------------------------------------------- collaborators
\* led_control_set(on)
led_control_set(on) ==
    /\ s_led_on' = (IF on /= 0 THEN 1 ELSE 0)

\* The guard of web_server_start: the static handle is already set.
AlreadyRunning_Never == FALSE

AlreadyRunning == server

\* The URI handlers web_server_start registers once the server runs.
UriHandlers ==
    {"GET /", "GET /led", "GET /string", "POST /string", "DELETE /string"}

\* web_server_start(); ok is the result of httpd_start, which stores the
\* handle only when it succeeds.
web_server_start(ok) ==
    LET seen == [calls EXCEPT !.web = @ + 1,
                              !.afterStart = @ + (IF server THEN 1 ELSE 0)] IN
    IF AlreadyRunning
       THEN /\ server' = server
            /\ calls' = [seen EXCEPT !.noops = @ + 1]
       ELSE IF ok
               THEN /\ server' = TRUE
                    /\ calls' = [seen EXCEPT !.tries = @ + 1, !.httpd = @ + 1,
                                             !.regs = @ + Cardinality(UriHandlers)]
               ELSE /\ server' = server
                    /\ calls' = [seen EXCEPT !.tries = @ + 1]

\* ------------------------------------------------- wifi_event_handler
\* The test of the STA_DISCONNECTED branch.
ShouldRetry_OffByOne(n) == n <= ESP_MAXIMUM_RETRY

ShouldRetry(n) == n < ESP_MAXIMUM_RETRY

\* The value the GOT_IP branch gives the counter.
RetryAfterGotIp_Keep(n) == n

RetryAfterGotIp(n) == 0

\* The order of the GOT_IP branch: reset, LED, web server, event bit.
GotIpNext_BitFirst(pc) ==
    CASE pc = "reset" -> "setbit"
      [] pc = "setbit" -> "led"
      [] pc = "led" -> "web"
      [] pc = "web" -> "idle"

GotIpNext(pc) ==
    CASE pc = "reset" -> "led"
      [] pc = "led" -> "web"
      [] pc = "web" -> "setbit"
      [] pc = "setbit" -> "idle"

\* The handlers are registered and esp_wifi_start has run.
WifiUp == mainPc \in {"wait_call", "blocked", "ready", "wifi_returned", "done"}

CanDispatch == WifiUp /\ hpc = "idle"

\* WIFI_EVENT_STA_START: posted once by esp_wifi_start, ahead of every other
\* station event.  The driver posts STA_DISCONNECTED and GOT_IP in any order
\* after it.
OnStaStart ==
    /\ CanDispatch
    /\ staStartDue
    /\ staStartDue' = FALSE
    /\ connectCalls' = connectCalls + 1
    /\ hist' = [hist EXCEPT !.last = "STA_START", !.before = s_retry_num, !.bitsBefore = bits,
                            !.connectsBy = 1, !.runConnects = @ + 1,
                            !.failSetsBy = 0]
    /\ UNCHANGED <<s_retry_num, bits, hpc, mainVars, sideVars, bleVars, restVars>>

\* WIFI_EVENT_STA_DISCONNECTED
OnStaDisconnected ==
    /\ CanDispatch
    /\ ~staStartDue
    /\ hist.n < MaxEvents
    /\ IF ShouldRetry(s_retry_num)
          THEN /\ connectCalls' = connectCalls + 1
               /\ s_retry_num' = s_retry_num + 1
               /\ hist' = [hist EXCEPT !.n = @ + 1, !.last = "STA_DISCONNECTED",
                                       !.before = s_retry_num, !.bitsBefore = bits,
                                       !.consec = @ + 1, !.disc = @ + 1,
                                       !.connectsBy = 1, !.runConnects = @ + 1,
                                       !.failSetsBy = 0]
               /\ UNCHANGED <<bits, mainVars>>
          ELSE /\ xEventGroupSetBits(WIFI_FAIL_BIT)
               /\ hist' = [hist EXCEPT !.n = @ + 1, !.last = "STA_DISCONNECTED",
                                       !.before = s_retry_num, !.bitsBefore = bits,
                                       !.consec = @ + 1, !.disc = @ + 1,
                                       !.connectsBy = 0, !.failSetsBy = 1,
                                       !.runFailSets = @ + 1, !.failSets = @ + 1]
               /\ UNCHANGED <<s_retry_num, connectCalls>>
    /\ UNCHANGED <<hpc, staStartDue, sideVars, bleVars, restVars>>

\* IP_EVENT_STA_GOT_IP, up to the first call: s_retry_num = 0
OnGotIp ==
    /\ CanDispatch
    /\ ~staStartDue
    /\ hist.n < MaxEvents
    /\ s_retry_num' = RetryAfterGotIp(s_retry_num)
    /\ hpc' = GotIpNext("reset")
    /\ hist' = [hist EXCEPT !.n = @ + 1, !.last = "GOT_IP",
                            !.before = s_retry_num, !.bitsBefore = bits,
                            !.consec = 0, !.gotIp = @ + 1,
                            !.connectsBy = 0, !.runConnects = 0,
                            !.failSetsBy = 0, !.runFailSets = 0]
    /\ UNCHANGED <<bits, staStartDue, connectCalls, mainVars, sideVars, bleVars, restVars>>

\* IP_EVENT_STA_GOT_IP: led_control_set(1)
GotIpLed ==
    /\ hpc = "led"
    /\ led_control_set(1)
    /\ calls' = [calls EXCEPT !.led = @ + 1]
    /\ hpc' = GotIpNext("led")
    /\ UNCHANGED <<s_retry_num, bits, staStartDue, connectCalls, mainVars,
                   server, hist, bleVars, restVars>>

\* IP_EVENT_STA_GOT_IP: web_server_start()
GotIpWeb ==
    /\ hpc = "web"
    /\ \E ok \in BOOLEAN : web_server_start(ok)
    /\ hist' = [hist EXCEPT !.webBeforeBit =
                   IF WIFI_CONNECTED_BIT \in bits THEN @ ELSE @ + 1]
    /\ hpc' = GotIpNext("web")
    /\ UNCHANGED <<s_retry_num, bits, staStartDue, connectCalls, mainVars,
                   s_led_on, bleVars, restVars>>

\* IP_EVENT_STA_GOT_IP: xEventGroupSetBits(s_wifi_event_group, WIFI_CONNECTED_BIT)
GotIpSetBit ==
    /\ hpc = "setbit"
    /\ xEventGroupSetBits(WIFI_CONNECTED_BIT)
    /\ hist' = [hist EXCEPT !.connSets = @ + 1]
    /\ hpc' = GotIpNext("setbit")
    /\ UNCHANGED <<s_retry_num, staStartDue, connectCalls, sideVars, bleVars, restVars>>

\* Any other WIFI_EVENT id (the handler is registered for ESP_EVENT_ANY_ID):
\* no branch of the handler is taken.
OnOtherWifiEvent ==
    /\ CanDispatch
    /\ ~staStartDue
    /\ hist' = [hist EXCEPT !.last = "OTHER", !.before = s_retry_num, !.bitsBefore = bits,
                            !.connectsBy = 0, !.failSetsBy = 0]
    /\ UNCHANGED <<stationVars, mainVars, sideVars, bleVars, restVars>>

\* ------------------------------------------------------------ BLE peripheral
\* ble_peripheral_init(): relOk is the result of
\* esp_bt_controller_mem_release, which ESP_ERROR_CHECK turns into an abort;
\* portOk is the result of nimble_port_init, which is not looked at: the host
\* task is started and 0 is returned in both cases, and a host whose port
\* failed to come up ("failed") never syncs.
ble_peripheral_init(relOk, portOk) ==
    /\ host = "off"
    /\ host' = (IF ~relOk THEN host ELSE IF portOk THEN "started" ELSE "failed")
    /\ UNCHANGED <<s_is_connected, s_conn_handle, advActive, ble>>

\* ------------------------------------------------------------ startup task
\* app_main up to wifi_manager_start: nvs_flash_init (ESP_ERROR_CHECK),
\* led_control_init, storage_manager_init.
AppMainBoot ==
    /\ mainPc = "boot"
    /\ \E ok \in BOOLEAN :
          IF ok THEN /\ led_control_set(0)
                     /\ mainPc' = "wifi_bringup"
                ELSE /\ mainPc' = "aborted"
                     /\ UNCHANGED s_led_on
    /\ UNCHANGED <<stationVars, waitBits, outcome, returns, server, calls,
                   hist, bleVars, restVars>>

\* wifi_manager_start up to esp_wifi_start: event group, netif, event loop,
\* driver, handler registration, mode, config, start; each ESP_ERROR_CHECK
\* aborts on failure.
WifiBringUp ==
    /\ mainPc = "wifi_bringup"
    /\ \E ok \in BOOLEAN :
          IF ok THEN /\ bits' = {}
                     /\ staStartDue' = TRUE
                     /\ mainPc' = "wait_call"
                ELSE /\ mainPc' = "aborted"
                     /\ UNCHANGED <<bits, staStartDue>>
    /\ UNCHANGED <<s_retry_num, hpc, connectCalls, waitBits, outcome, returns,
                   sideVars, hist, bleVars, restVars>>

\* wifi_manager_start calls xEventGroupWaitBits: it returns at once when a bit
\* of the mask is set, and blocks the task otherwise.
WaitCall ==
    /\ mainPc = "wait_call"
    /\ IF WaitSatisfied(bits)
          THEN /\ mainPc' = "ready"
               /\ waitBits' = bits
          ELSE /\ mainPc' = "blocked"
               /\ UNCHANGED waitBits
    /\ UNCHANGED <<stationVars, outcome, returns, sideVars, hist, bleVars, restVars>>

\* xEventGroupWaitBits returns; wifi_manager_start logs the outcome and returns.
WifiManagerReturn ==
    /\ mainPc = "ready"
    /\ outcome' = (IF WIFI_CONNECTED_BIT \in waitBits THEN "Connected"
                   ELSE IF WIFI_FAIL_BIT \in waitBits THEN "Fail"
                   ELSE "Unexpected")
    /\ returns' = returns + 1
    /\ mainPc' = "wifi_returned"
    /\ hist' = [hist EXCEPT !.ledAtReturn = calls.led, !.webAtReturn = calls.web]
    /\ UNCHANGED <<stationVars, waitBits, sideVars, bleVars, restVars>>

\* app_main after wifi_manager_start: ble_peripheral_init, whose result is
\* only logged, then "All modules initialized" ("done").  A host task
\* started on a port that failed to come up may fault, which aborts the
\* firmware, or may sit idle.
AppMainBleInit ==
    /\ mainPc = "wifi_returned"
    /\ \E relOk \in BOOLEAN, portOk \in BOOLEAN, faults \in BOOLEAN :
          /\ ble_peripheral_init(relOk, portOk)
          /\ mainPc' = (IF relOk /\ (portOk \/ ~faults) THEN "done"
                        ELSE "aborted")
    /\ UNCHANGED <<stationVars, waitBits, outcome, returns, sideVars, hist,
                   restVars>>

\* ------------------------------------------------------------ specification
Next ==
    \/ AppMainBoot
    \/ WifiBringUp
    \/ WaitCall
    \/ WifiManagerReturn
    \/ AppMainBleInit
    \/ OnStaStart
    \/ OnStaDisconnected
    \/ OnGotIp
    \/ GotIpLed
    \/ GotIpWeb
    \/ GotIpSetBit
    \/ OnOtherWifiEvent

Spec == Init /\ [][Next]_vars

\* =================================================== station: properties
Connected == WIFI_CONNECTED_BIT \in bits
Failed == WIFI_FAIL_BIT \in bits
LastWasDisconnect == hist.last = "STA_DISCONNECTED"

\* C1: retry budget.  With N the number of STA_DISCONNECTED events handled
\* since the start or the last GOT_IP: while N <= ESP_MAXIMUM_RETRY the counter
\* equals N, every one of these events issued one esp_wifi_connect and none
\* raised a terminal signal (from the start, both bits are still clear); the
\* (max+1)-th raises exactly one Fail signal; that event and every later
\* disconnect issue no esp_wifi_connect.
C1_RetryBudget ==
    /\ hist.consec <= ESP_MAXIMUM_RETRY =>
          /\ s_retry_num = hist.consec
          /\ hist.runFailSets = 0
          /\ hist.gotIp = 0 => bits = {}
          /\ (LastWasDisconnect /\ hist.consec >= 1) =>
                (hist.connectsBy = 1 /\ hist.failSetsBy = 0)
    /\ (hist.consec = ESP_MAXIMUM_RETRY + 1) =>
          /\ hist.runFailSets = 1
          /\ Failed
          /\ LastWasDisconnect => hist.failSetsBy = 1
    /\ (hist.consec > ESP_MAXIMUM_RETRY /\ LastWasDisconnect) =>
          hist.connectsBy = 0

\* C1 witness: a disconnect handled after the budget was exhausted.
C1_Witness ==
    /\ hist.consec = ESP_MAXIMUM_RETRY + 2
    /\ LastWasDisconnect
    /\ connectCalls = ESP_MAXIMUM_RETRY + 1

\* C2: once a GOT_IP event has been dispatched the counter is 0, whatever it
\* was before and whether or not the Fail signal had been raised.
C2_GotIpResets == hist.last = "GOT_IP" => s_retry_num = 0

\* C2 witness: GOT_IP handled with the counter at its maximum and Fail raised.
C2_Witness ==
    /\ hist.last = "GOT_IP"
    /\ hpc = "idle"
    /\ hist.before = ESP_MAXIMUM_RETRY
    /\ Failed
    /\ s_retry_num = 0

\* C3 as claimed: every STA_DISCONNECTED event increments the counter by one,
\* and Fail is raised exactly by the event that makes the counter exceed max.
C3_EveryFailureCounts ==
    LastWasDisconnect =>
       /\ s_retry_num = hist.before + 1
       /\ (hist.failSetsBy = 1) <=> (s_retry_num > ESP_MAXIMUM_RETRY)

\* C3 amended: a STA_DISCONNECTED event handled with the counter below max
\* increments it by exactly one and raises nothing; one handled with the
\* counter at max leaves it at max and raises Fail; the counter never
\* exceeds max.
C3_CountsBelowMax ==
    /\ s_retry_num \in 0..ESP_MAXIMUM_RETRY
    /\ LastWasDisconnect =>
          IF hist.before < ESP_MAXIMUM_RETRY
             THEN s_retry_num = hist.before + 1 /\ hist.failSetsBy = 0
             ELSE s_retry_num = hist.before /\ hist.failSetsBy = 1

\* C3 witness: the event that raises Fail, the counter staying at max.
C3_Witness ==
    /\ LastWasDisconnect
    /\ hist.before = ESP_MAXIMUM_RETRY
    /\ s_retry_num = ESP_MAXIMUM_RETRY
    /\ hist.failSetsBy = 1

\* C4: wifi_manager_start returns at most once, and only with a terminal bit
\* set and seen by the wait; while both bits are clear the startup task has
\* not passed the wait, whatever retry activity has taken place.
C4_ReturnsOnTerminal ==
    /\ returns <= 1
    /\ mainPc \in {"wifi_returned", "done"} => returns = 1
    /\ (mainPc = "ready" \/ returns = 1) =>
          /\ waitBits \cap TerminalBits /= {}
          /\ waitBits \subseteq bits
    /\ returns = 1 => outcome \in {"Connected", "Fail"}
    /\ returns = 0 => outcome = "none"
    /\ (WifiUp /\ bits = {}) => mainPc \in {"wait_call", "blocked"}

\* C4 witness: the call has returned on the Fail signal, after max retries
\* during which it stayed blocked.
C4_Witness ==
    /\ returns = 1
    /\ outcome = "Fail"
    /\ hist.disc = ESP_MAXIMUM_RETRY + 1
    /\ connectCalls = ESP_MAXIMUM_RETRY + 1

\* C5: when wifi_manager_start has returned with the Connected outcome, both
\* led_control_set(1) and web_server_start() had been called by then; in every
\* GOT_IP handler the two calls precede the setting of WIFI_CONNECTED_BIT.
C5_SideEffectsBeforeReturn ==
    /\ outcome = "Connected" => (hist.ledAtReturn >= 1 /\ hist.webAtReturn >= 1)
    /\ WIFI_CONNECTED_BIT \in waitBits => (calls.led >= 1 /\ calls.web >= 1)
    /\ hist.connSets <= calls.web
    /\ calls.web <= calls.led

\* C5 witness: returned with Connected.
C5_Witness ==
    /\ mainPc = "wifi_returned"
    /\ outcome = "Connected"
    /\ hist.ledAtReturn = 1
    /\ hist.webAtReturn = 1

\* C6 as claimed: a return with the Fail outcome finds neither side effect
\* performed; and in a run of disconnects only, max+1 of them raise exactly
\* one Fail signal, the counter never goes down, and web_server_start is
\* never called.
C6_FailNoSideEffects ==
    /\ outcome = "Fail" => (hist.ledAtReturn = 0 /\ hist.webAtReturn = 0)
    /\ hist.gotIp = 0 =>
          /\ calls.web = 0
          /\ calls.led = 0
          /\ s_retry_num >= hist.before
          /\ hist.consec = ESP_MAXIMUM_RETRY + 1 => hist.failSets = 1

\* C7 as claimed: at most one of the two terminal bits is set.
C7_MutuallyExclusive == ~(Connected /\ Failed)

\* C8 as claimed: web_server_start is called exactly once, and after the
\* Connected signal has been set.
C8_StartedOnceAfterConnected ==
    /\ calls.web <= 1
    /\ hist.webBeforeBit = 0
    /\ Connected => calls.web = 1

\* C8 amended: web_server_start is called once per GOT_IP event (again after
\* every reconnect), inside the handler and before the handler sets
\* WIFI_CONNECTED_BIT, so the first call precedes the Connected signal; the
\* HTTP server itself is started (httpd_start succeeds) at most once.
C8_OncePerGotIp ==
    /\ calls.web = hist.connSets + (IF hpc = "setbit" THEN 1 ELSE 0)
    /\ calls.web = hist.gotIp - (IF hpc \in {"led", "web"} THEN 1 ELSE 0)
    /\ calls.web >= 1 => hist.webBeforeBit = 1
    /\ calls.httpd <= 1
    /\ server <=> calls.httpd = 1

\* C8 witness: a second call after a reconnect, the server started once.
C8_Witness ==
    /\ calls.web = 2
    /\ calls.httpd = 1
    /\ hist.disc >= 1
    /\ hist.connSets = 2

\* C9: after k <= max disconnects followed by one GOT_IP (handled to its end,
\* nothing but ignored events since), the counter is 0, the Connected signal
\* has been set once and Fail never, led_control_set(1) and web_server_start
\* have each been called once, and wifi_manager_start is not blocked: it has
\* returned, or is about to, with the Connected outcome.
C9_ConnectAfterRetries ==
    (hist.gotIp = 1 /\ hist.consec = 0 /\ hist.disc <= ESP_MAXIMUM_RETRY
        /\ hpc = "idle") =>
       /\ s_retry_num = 0
       /\ bits = {WIFI_CONNECTED_BIT}
       /\ hist.connSets = 1
       /\ hist.failSets = 0
       /\ calls.led = 1
       /\ calls.web = 1
       /\ connectCalls = hist.disc + 1
       /\ mainPc /= "blocked"
       /\ mainPc = "ready" => waitBits = {WIFI_CONNECTED_BIT}
       /\ returns = 1 => outcome = "Connected"

\* C9 witness: max disconnects, then GOT_IP, and the call has returned.
C9_Witness ==
    /\ hist.gotIp = 1
    /\ hist.consec = 0
    /\ hist.disc = ESP_MAXIMUM_RETRY
    /\ hpc = "idle"
    /\ returns = 1
    /\ outcome = "Connected"

\* C20: web_server_start is idempotent.  The server is started at most once
\* and its handlers are registered once, with that start; every call made
\* once the handle is set, and no other, returns at the handle check without
\* calling httpd_start; every call made before that, also one that follows a
\* failed httpd_start, calls httpd_start.
C20_StartIdempotent ==
    /\ calls.httpd <= 1
    /\ server <=> calls.httpd = 1
    /\ calls.regs = Cardinality(UriHandlers) * calls.httpd
    /\ calls.noops = calls.afterStart
    /\ calls.tries = calls.web - calls.afterStart
    /\ ~server => calls.tries = calls.web

\* A failed httpd_start, a later call that started the server, and a call
\* after that.
C20_Witness ==
    /\ server
    /\ calls.tries >= 2
    /\ calls.noops >= 1

\* ================================================ startup: BLE bring-up
\* C17 as claimed: the BLE role is initialised whatever the Wi-Fi machine
\* does: while the station waits for a terminal outcome that has not come,
\* the step that initialises the BLE role can be taken.
C17_BleInitNotGatedByWifi ==
    (mainPc = "blocked" /\ host = "off") => ENABLED AppMainBleInit

\* C18 as claimed: a failing bring-up step of the Wi-Fi station or of the
\* BLE stack aborts startup, so app_main reaches "All modules initialized"
\* only with the Wi-Fi bring-up done and the BLE host brought up.
C18_FailureAbortsStartup ==
    mainPc = "done" => (WifiUp /\ host = "started")

\* C28: in every reachable state 0 <= s_retry_num <= ESP_MAXIMUM_RETRY, the
\* esp_wifi_connect calls made since start or since the last GOT_IP number at
\* most s_retry_num + 1, and STA_START, which accounts for the one, leaves
\* the counter and both signals as they were.
C28_RetryBudget ==
    /\ 0 <= s_retry_num /\ s_retry_num <= ESP_MAXIMUM_RETRY
    /\ hist.runConnects <= s_retry_num + 1
    /\ hist.last = "STA_START" =>
          (s_retry_num = hist.before /\ bits = hist.bitsBefore)

\* The budget is used up: the STA_START connect and every counted retry.
C28_Witness ==
    /\ s_retry_num = ESP_MAXIMUM_RETRY
    /\ hist.runConnects = ESP_MAXIMUM_RETRY + 1
    /\ hist.last = "STA_DISCONNECTED"

\* ------------------------------------------------- startup under fairness
\* An esp_wifi_connect call that the driver has not answered yet: the
\* station events dispatched are fewer than the calls made.
ConnectPending == connectCalls > hist.n

\* The driver answers a pending esp_wifi_connect with STA_DISCONNECTED or
\* with GOT_IP, and the event loop runs the handler for it.
ConnectAnswered ==
    /\ ConnectPending
    /\ (OnStaDisconnected \/ OnGotIp)

\* The startup task and the event loop task are scheduled whenever they can
\* run, and every pending esp_wifi_connect is answered.
Fairness ==
    /\ WF_vars(WaitCall)
    /\ WF_vars(WifiManagerReturn)
    /\ WF_vars(AppMainBleInit)
    /\ WF_vars(OnStaStart)
    /\ WF_vars(GotIpLed)
    /\ WF_vars(GotIpWeb)
    /\ WF_vars(GotIpSetBit)
    /\ WF_vars(ConnectAnswered)

SpecFair == Spec /\ Fairness

\* C29: under the fairness of SpecFair, once esp_wifi_start has run
\* wifi_manager_start returns and app_main goes on to ble_peripheral_init
\* (which ends in "All modules initialized" or in an abort of its own), and
\* ESP_MAXIMUM_RETRY + 1 consecutive STA_DISCONNECTED events have raised the
\* Fail signal that ends the wait.
C29_StartupTerminates ==
    /\ [](hist.consec > ESP_MAXIMUM_RETRY => WIFI_FAIL_BIT \in bits)
    /\ (mainPc = "wait_call") ~> (returns = 1 /\ mainPc \in {"done", "aborted"})

\* The wait ended by the Fail signal after ESP_MAXIMUM_RETRY + 1 consecutive
\* disconnects, and app_main went on through ble_peripheral_init.
C29_Witness ==
    /\ returns = 1
    /\ outcome = "Fail"
    /\ hist.consec = ESP_MAXIMUM_RETRY + 1
    /\ hist.gotIp = 0
    /\ mainPc = "done"
    /\ host = "started"



\* ============================================ BLE peripheral (BLE.c)
\* The component on its own: its state depends on the station only through
\* the moment app_main calls ble_peripheral_init, so SpecPeripheral lets the
\* application make that call at any time and leaves the station alone.
nonBleVars == <<stationVars, mainVars, sideVars, hist, restVars>>

ConnHandles == 0..MaxHandle

\* A start_advertising() that reports success for a start issued while
\* advertising is active.
start_advertising_AcceptsSecond(adv, fieldsOk, startOk) ==
    IF ~fieldsOk
       THEN [rc |-> "ERR", adv |-> adv, setFields |-> 1, advStarts |-> 0]
       ELSE [rc |-> IF adv \/ startOk THEN "0" ELSE "ERR",
             adv |-> adv \/ startOk, setFields |-> 1, advStarts |-> 1]

\* start_advertising(), called with the host advertising or not (adv):
\* fieldsOk is the result of ble_gap_adv_set_fields, startOk the result
\* ble_gap_adv_start gives when no advertising is active; while one is
\* active the host answers BLE_HS_EALREADY and keeps it.
start_advertising(adv, fieldsOk, startOk) ==
    IF ~fieldsOk
       THEN [rc |-> "ERR", adv |-> adv, setFields |-> 1, advStarts |-> 0]
       ELSE IF adv
               THEN [rc |-> "EALREADY", adv |-> adv, setFields |-> 1, advStarts |-> 1]
               ELSE IF startOk
                       THEN [rc |-> "0", adv |-> TRUE, setFields |-> 1, advStarts |-> 1]
                       ELSE [rc |-> "ERR", adv |-> FALSE, setFields |-> 1, advStarts |-> 1]

\* The bookkeeping of one handled GAP event or call.
BleStep(name, r) ==
    ble' = [ble EXCEPT !.n = @ + 1, !.last = name,
                       !.wasConnected = s_is_connected,
                       !.wasHandle = s_conn_handle,
                       !.wasAdv = advActive,
                       !.afterStop = (ble.last = "api_stop" /\ ble.rc = "0"),
                       !.afterReset = (ble.last = "reset"),
                       !.setFieldsBy = r.setFields,
                       !.advStartsBy = r.advStarts,
                       !.rc = r.rc]

\* A handler that starts advertising where the code calls nothing.
NoStackCall_Start(adv) ==
    [rc |-> "0", adv |-> TRUE, setFields |-> 1, advStarts |-> 1]

NoStackCall(adv) == [rc |-> "0", adv |-> adv, setFields |-> 0, advStarts |-> 0]

\* The host task delivers GAP events once the host is synced.
CanDeliver == host = "synced" /\ ble.n < MaxBleEvents

\* BLE_GAP_EVENT_CONNECT: advertising has ended in the host; status 0 stores
\* the handle and sets the flag, any other status clears the flag and
\* restarts advertising.
GapConnect ==
    /\ CanDeliver
    /\ \E status \in {0, 1}, h \in ConnHandles, fOk \in BOOLEAN, sOk \in BOOLEAN :
          IF status = 0
             THEN /\ s_conn_handle' = h
                  /\ s_is_connected' = TRUE
                  /\ advActive' = FALSE
                  /\ BleStep("CONNECT_OK", NoStackCall(FALSE))
             ELSE LET r == start_advertising(FALSE, fOk, sOk) IN
                  /\ s_is_connected' = FALSE
                  /\ UNCHANGED s_conn_handle
                  /\ advActive' = r.adv
                  /\ BleStep("CONNECT_FAILED", r)
    /\ UNCHANGED <<host, nonBleVars>>

\* BLE_GAP_EVENT_DISCONNECT
GapDisconnect ==
    /\ CanDeliver
    /\ \E fOk \in BOOLEAN, sOk \in BOOLEAN :
          LET r == start_advertising(advActive, fOk, sOk) IN
          /\ s_conn_handle' = BLE_HS_CONN_HANDLE_NONE
          /\ s_is_connected' = FALSE
          /\ advActive' = r.adv
          /\ BleStep("DISCONNECT", r)
    /\ UNCHANGED <<host, nonBleVars>>

\* BLE_GAP_EVENT_CONN_UPDATE
GapConnUpdate ==
    /\ CanDeliver
    /\ BleStep("CONN_UPDATE", NoStackCall(advActive))
    /\ UNCHANGED <<s_is_connected, s_conn_handle, host, advActive, nonBleVars>>

\* BLE_GAP_EVENT_ADV_COMPLETE: advertising has ended in the host; it is
\* restarted if the flag is clear.
GapAdvComplete ==
    /\ CanDeliver
    /\ \E fOk \in BOOLEAN, sOk \in BOOLEAN :
          LET r == IF ~s_is_connected
                      THEN start_advertising(FALSE, fOk, sOk)
                      ELSE NoStackCall(FALSE) IN
          /\ advActive' = r.adv
          /\ BleStep("ADV_COMPLETE", r)
    /\ UNCHANGED <<s_is_connected, s_conn_handle, host, nonBleVars>>

\* default: any other GAP event type
GapOther ==
    /\ CanDeliver
    /\ BleStep("OTHER", NoStackCall(advActive))
    /\ UNCHANGED <<s_is_connected, s_conn_handle, host, advActive, nonBleVars>>

\* ble_peripheral_on_sync: addrOk is the result of ble_hs_id_infer_auto and
\* ble_hs_util_ensure_addr; on failure the callback returns early.
ble_peripheral_on_sync ==
    /\ host = "started"
    /\ host' = "synced"
    /\ \E addrOk \in BOOLEAN, fOk \in BOOLEAN, sOk \in BOOLEAN :
          LET r == IF addrOk THEN start_advertising(advActive, fOk, sOk)
                             ELSE NoStackCall(advActive) IN
          /\ advActive' = r.adv
          /\ ble' = [ble EXCEPT !.last = "sync", !.wasConnected = s_is_connected,
                                !.wasHandle = s_conn_handle,
                                !.wasAdv = advActive,
                                !.afterStop = FALSE,
                                !.afterReset = (ble.last = "reset"),
                                !.setFieldsBy = r.setFields,
                                !.advStartsBy = r.advStarts, !.rc = r.rc]
    /\ UNCHANGED <<s_is_connected, s_conn_handle, nonBleVars>>

\* The reset callbacks of both roles store BLE_HS_CONN_HANDLE_NONE in
\* s_conn_handle, whatever it held (h).
HandleAfterReset_Keep(h) == h

HandleAfterReset(h) == BLE_HS_CONN_HANDLE_NONE

\* ble_peripheral_on_reset: the host has lost its state (no advertising, no
\* connection) and will call the sync callback again.
ble_peripheral_on_reset ==
    /\ host = "synced"
    /\ ble.n < MaxBleEvents
    /\ host' = "started"
    /\ s_is_connected' = FALSE
    /\ s_conn_handle' = HandleAfterReset(s_conn_handle)
    /\ advActive' = FALSE
    /\ BleStep("reset", NoStackCall(FALSE))
    /\ UNCHANGED nonBleVars

\* ble_peripheral_start_advertising()
ble_peripheral_start_advertising ==
    /\ CanDeliver
    /\ \E fOk \in BOOLEAN, sOk \in BOOLEAN :
          LET r == IF s_is_connected
                      THEN [NoStackCall(advActive) EXCEPT !.rc = "-1"]
                      ELSE start_advertising(advActive, fOk, sOk) IN
          /\ advActive' = r.adv
          /\ BleStep("api_start", r)
    /\ UNCHANGED <<s_is_connected, s_conn_handle, host, nonBleVars>>

\* What the cancel call of the host (ble_gap_adv_stop, ble_gap_disc_cancel)
\* answers: BLE_HS_EALREADY with no discovery active, else 0 or an error.
CancelRc(active, cancelOk) ==
    IF ~active THEN "EALREADY" ELSE IF cancelOk THEN "0" ELSE "ERR"

\* What the stop functions of both roles return for an answer rc of the
\* host: rc != 0 && rc != BLE_HS_EALREADY is returned, anything else is 0.
StopResult_Strict(rc) == rc

StopResult(rc) == IF rc /= "0" /\ rc /= "EALREADY" THEN rc ELSE "0"

\* ble_peripheral_stop_advertising(): stopOk is the result ble_gap_adv_stop
\* gives while advertising is active.
ble_peripheral_stop_advertising ==
    /\ CanDeliver
    /\ \E stopOk \in BOOLEAN :
          /\ advActive' = (IF advActive /\ stopOk THEN FALSE ELSE advActive)
          /\ BleStep("api_stop",
                     [NoStackCall(advActive) EXCEPT
                         !.rc = StopResult(CancelRc(advActive, stopOk))])
    /\ UNCHANGED <<s_is_connected, s_conn_handle, host, nonBleVars>>

\* ble_peripheral_init() called by the application
PeripheralInit ==
    /\ \E relOk \in BOOLEAN, portOk \in BOOLEAN : ble_peripheral_init(relOk, portOk)
    /\ UNCHANGED nonBleVars

NextPeripheral ==
    \/ PeripheralInit
    \/ ble_peripheral_on_sync
    \/ ble_peripheral_on_reset
    \/ GapConnect
    \/ GapDisconnect
    \/ GapConnUpdate
    \/ GapAdvComplete
    \/ GapOther
    \/ ble_peripheral_start_advertising
    \/ ble_peripheral_stop_advertising

SpecPeripheral == Init /\ [][NextPeripheral]_vars

\* ================================================ peripheral: properties
\* C10 as claimed: handling one Disconnect event, or one AdvertiseComplete
\* event while s_is_connected is false, issues exactly one ble_gap_adv_start.
C10_OneRestartPerEvent ==
    (ble.last = "DISCONNECT" \/ (ble.last = "ADV_COMPLETE" /\ ~ble.wasConnected))
       => ble.advStartsBy = 1

\* C12 as claimed: the peripheral has no terminal state: once a failed
\* connect or a disconnect has been handled the role is Discovering again
\* (advertising is active), also when a start call returned an error.
C12_DiscoveringAfterFailure ==
    ble.last \in {"CONNECT_FAILED", "DISCONNECT"} => advActive

\* C13 as claimed: once a connect outcome with a non-zero status has been
\* handled, in whatever state it arrived, s_conn_handle is
\* BLE_HS_CONN_HANDLE_NONE and s_is_connected is false; and in every state a
\* handle other than NONE is held only while a link exists.
C13_NoDanglingHandle ==
    /\ ble.last = "CONNECT_FAILED" =>
          (s_conn_handle = BLE_HS_CONN_HANDLE_NONE /\ ~s_is_connected)
    /\ s_conn_handle /= BLE_HS_CONN_HANDLE_NONE => s_is_connected

\* ================================= BLE central (station/components/BLE/BLE.c)
\* The component on its own, as SpecPeripheral does for the peripheral.  The
\* host under it keeps at most one scan and one connect procedure and
\* answers a start of either while it runs with an error; which GAP events
\* reach the callback, and when, is an input.
nonCentralVars ==
    <<stationVars, mainVars, sideVars, hist, bleVars, codecVars, storageVars,
      raceVars>>

\* A ble_central_start_scan() whose ble_gap_disc is accepted while a connect
\* is in flight.
ble_central_start_scan_NoBusy(scan, pending, ok) ==
    IF scan
       THEN [rc |-> "EALREADY", scan |-> scan, pending |-> pending,
             cancels |-> 0, connects |-> 0, discs |-> 1]
       ELSE [rc |-> IF ok THEN "0" ELSE "ERR", scan |-> ok, pending |-> pending,
             cancels |-> 0, connects |-> 0, discs |-> 1]

\* ble_central_start_scan(), called with the host scanning or not (scan) and
\* connecting or not (pending): one ble_gap_disc call, whose outcome is
\* BLE_HS_EBUSY while a connect is in flight, BLE_HS_EALREADY while a scan is
\* active, and ok otherwise.
ble_central_start_scan(scan, pending, ok) ==
    IF pending
       THEN [rc |-> "EBUSY", scan |-> scan, pending |-> pending,
             cancels |-> 0, connects |-> 0, discs |-> 1]
       ELSE IF scan
               THEN [rc |-> "EALREADY", scan |-> scan, pending |-> pending,
                     cancels |-> 0, connects |-> 0, discs |-> 1]
               ELSE [rc |-> IF ok THEN "0" ELSE "ERR", scan |-> ok,
                     pending |-> pending,
                     cancels |-> 0, connects |-> 0, discs |-> 1]

\* ble_gap_disc_cancel as connect_to_device and ble_central_stop_scan call
\* it: with no scan active the host answers BLE_HS_EALREADY.
ScanAfterCancel(scan, cancelOk) == IF scan /\ cancelOk THEN FALSE ELSE scan

\* connect_to_device(): ble_gap_disc_cancel, whose failure is only logged,
\* then ble_gap_connect in every case.  The host answers BLE_HS_EALREADY
\* while a connect is in flight and BLE_HS_EBUSY while the scan still runs.
connect_to_device(scan, pending, cancelOk, connOk) ==
    LET scan1 == ScanAfterCancel(scan, cancelOk) IN
    IF pending
       THEN [rc |-> "EALREADY", scan |-> scan1, pending |-> TRUE,
             cancels |-> 1, connects |-> 1, discs |-> 0]
       ELSE IF scan1
               THEN [rc |-> "EBUSY", scan |-> scan1, pending |-> FALSE,
                     cancels |-> 1, connects |-> 1, discs |-> 0]
               ELSE [rc |-> IF connOk THEN "0" ELSE "ERR", scan |-> scan1,
                     pending |-> connOk,
                     cancels |-> 1, connects |-> 1, discs |-> 0]

\* The DISC branch connects when the report is connectable (ADV_IND or
\* DIR_IND) and the connected flag is clear.
ShouldConnect(connectable, connected) == connectable /\ ~connected

NoHostCall(scan, pending) ==
    [rc |-> "0", scan |-> scan, pending |-> pending,
     cancels |-> 0, connects |-> 0, discs |-> 0]

\* The bookkeeping of one handled GAP event or call.
CenStep(name, r) ==
    cen' = [cen EXCEPT !.n = @ + 1, !.last = name,
                       !.wasConnected = cen_is_connected,
                       !.wasPending = connPending,
                       !.wasScan = scanActive,
                       !.wasHandle = cen_conn_handle,
                       !.afterStop = (cen.last = "api_stop" /\ cen.rc = "0"),
                       !.afterReset = (cen.last = "reset"),
                       !.cancelsBy = r.cancels,
                       !.connectsBy = r.connects,
                       !.scanAtConnect = (r.connects > 0 /\ r.scan),
                       !.discsBy = r.discs,
                       !.rc = r.rc]

CenCanDeliver == cenHost = "synced" /\ cen.n < MaxBleEvents

\* BLE_GAP_EVENT_DISC: one advertising report, connectable or not.
GapDisc ==
    /\ CenCanDeliver
    /\ \E connectable \in BOOLEAN, cancelOk \in BOOLEAN, connOk \in BOOLEAN :
          LET r == IF ShouldConnect(connectable, cen_is_connected)
                      THEN connect_to_device(scanActive, connPending,
                                             cancelOk, connOk)
                      ELSE NoHostCall(scanActive, connPending) IN
          /\ scanActive' = r.scan
          /\ connPending' = r.pending
          /\ CenStep(IF connectable THEN "DISC_CONNECTABLE" ELSE "DISC_OTHER", r)
    /\ UNCHANGED <<cen_is_connected, cen_conn_handle, cenHost, nonCentralVars>>

\* BLE_GAP_EVENT_CONNECT: the outcome of the connect procedure, which is
\* over in the host; status 0 stores the handle and sets the flag, any other
\* status clears the flag and restarts the scan.
CenGapConnect ==
    /\ CenCanDeliver
    /\ \E status \in {0, 1}, h \in ConnHandles, ok \in BOOLEAN :
          IF status = 0
             THEN /\ cen_conn_handle' = h
                  /\ cen_is_connected' = TRUE
                  /\ connPending' = FALSE
                  /\ UNCHANGED scanActive
                  /\ CenStep("CONNECT_OK", NoHostCall(scanActive, FALSE))
             ELSE LET r == ble_central_start_scan(scanActive, FALSE, ok) IN
                  /\ cen_is_connected' = FALSE
                  /\ UNCHANGED cen_conn_handle
                  /\ connPending' = FALSE
                  /\ scanActive' = r.scan
                  /\ CenStep("CONNECT_FAILED", r)
    /\ UNCHANGED <<cenHost, nonCentralVars>>

\* BLE_GAP_EVENT_DISCONNECT
CenGapDisconnect ==
    /\ CenCanDeliver
    /\ \E ok \in BOOLEAN :
          LET r == ble_central_start_scan(scanActive, connPending, ok) IN
          /\ cen_conn_handle' = BLE_HS_CONN_HANDLE_NONE
          /\ cen_is_connected' = FALSE
          /\ scanActive' = r.scan
          /\ CenStep("DISCONNECT", r)
    /\ UNCHANGED <<connPending, cenHost, nonCentralVars>>

\* BLE_GAP_EVENT_DISC_COMPLETE: the scan has ended in the host; it is
\* restarted if the flag is clear.
GapDiscComplete ==
    /\ CenCanDeliver
    /\ \E ok \in BOOLEAN :
          LET r == IF ~cen_is_connected
                      THEN ble_central_start_scan(FALSE, connPending, ok)
                      ELSE NoHostCall(FALSE, connPending) IN
          /\ scanActive' = r.scan
          /\ CenStep("DISC_COMPLETE", r)
    /\ UNCHANGED <<cen_is_connected, cen_conn_handle, connPending, cenHost,
                   nonCentralVars>>

\* BLE_GAP_EVENT_CONN_UPDATE
CenGapConnUpdate ==
    /\ CenCanDeliver
    /\ CenStep("CONN_UPDATE", NoHostCall(scanActive, connPending))
    /\ UNCHANGED <<cen_is_connected, cen_conn_handle, cenHost, scanActive,
                   connPending, nonCentralVars>>

\* default: any other GAP event type
CenGapOther ==
    /\ CenCanDeliver
    /\ CenStep("OTHER", NoHostCall(scanActive, connPending))
    /\ UNCHANGED <<cen_is_connected, cen_conn_handle, cenHost, scanActive,
                   connPending, nonCentralVars>>

\* ble_central_on_sync: addrOk is the result of ble_hs_id_infer_auto and
\* ble_hs_util_ensure_addr; on failure the callback returns early.
ble_central_on_sync ==
    /\ cenHost = "started"
    /\ cenHost' = "synced"
    /\ \E addrOk \in BOOLEAN, ok \in BOOLEAN :
          LET r == IF addrOk
                      THEN ble_central_start_scan(scanActive, connPending, ok)
                      ELSE NoHostCall(scanActive, connPending) IN
          /\ scanActive' = r.scan
          /\ cen' = [cen EXCEPT !.last = "sync",
                                !.wasConnected = cen_is_connected,
                                !.wasPending = connPending,
                                !.wasScan = scanActive,
                                !.wasHandle = cen_conn_handle,
                                !.afterStop = FALSE,
                                !.afterReset = (cen.last = "reset"),
                                !.cancelsBy = r.cancels,
                                !.connectsBy = r.connects,
                                !.scanAtConnect = (r.connects > 0 /\ r.scan),
                                !.discsBy = r.discs, !.rc = r.rc]
    /\ UNCHANGED <<cen_is_connected, cen_conn_handle, connPending,
                   nonCentralVars>>

\* ble_central_on_reset: the host has lost its state (no scan, no connect
\* procedure, no connection) and will call the sync callback again.
ble_central_on_reset ==
    /\ cenHost = "synced"
    /\ cen.n < MaxBleEvents
    /\ cenHost' = "started"
    /\ cen_is_connected' = FALSE
    /\ cen_conn_handle' = HandleAfterReset(cen_conn_handle)
    /\ scanActive' = FALSE
    /\ connPending' = FALSE
    /\ CenStep("reset", NoHostCall(FALSE, FALSE))
    /\ UNCHANGED nonCentralVars

\* ble_central_start_scan() called by the application
CallStartScan ==
    /\ CenCanDeliver
    /\ \E ok \in BOOLEAN :
          LET r == ble_central_start_scan(scanActive, connPending, ok) IN
          /\ scanActive' = r.scan
          /\ CenStep("api_start", r)
    /\ UNCHANGED <<cen_is_connected, cen_conn_handle, connPending, cenHost,
                   nonCentralVars>>

\* ble_central_stop_scan(): BLE_HS_EALREADY counts as success.
ble_central_stop_scan ==
    /\ CenCanDeliver
    /\ \E cancelOk \in BOOLEAN :
          /\ scanActive' = ScanAfterCancel(scanActive, cancelOk)
          /\ CenStep("api_stop",
                     [NoHostCall(scanActive, connPending) EXCEPT
                         !.cancels = 1,
                         !.rc = StopResult(CancelRc(scanActive, cancelOk))])
    /\ UNCHANGED <<cen_is_connected, cen_conn_handle, connPending, cenHost,
                   nonCentralVars>>

\* ble_central_init() called by the application: relOk is the result of
\* esp_bt_controller_mem_release, which ESP_ERROR_CHECK turns into an abort,
\* portOk the result of nimble_port_init, which is not looked at.
ble_central_init ==
    /\ cenHost = "off"
    /\ \E relOk \in BOOLEAN, portOk \in BOOLEAN :
          cenHost' = (IF ~relOk THEN cenHost
                      ELSE IF portOk THEN "started" ELSE "failed")
    /\ UNCHANGED <<cen_is_connected, cen_conn_handle, scanActive, connPending,
                   cen, nonCentralVars>>

NextCentral ==
    \/ ble_central_init
    \/ ble_central_on_sync
    \/ ble_central_on_reset
    \/ GapDisc
    \/ CenGapConnect
    \/ CenGapDisconnect
    \/ GapDiscComplete
    \/ CenGapConnUpdate
    \/ CenGapOther
    \/ CallStartScan
    \/ ble_central_stop_scan

SpecCentral == Init /\ [][NextCentral]_vars

\* =================================================== central: properties
\* C11 as claimed: a connectable advertising report handled while a connect
\* is in flight is ignored: no ble_gap_disc_cancel and no ble_gap_connect is
\* issued for it, and the connect stays in flight.
C11_HitIgnoredWhileConnecting ==
    (cen.last = "DISC_CONNECTABLE" /\ cen.wasPending)
       => (cen.cancelsBy = 0 /\ cen.connectsBy = 0 /\ connPending)

\* C22 as claimed: ble_gap_connect is called only for an advertising report
\* of a connectable kind, and when it is called no scan is active, also
\* when ble_gap_disc_cancel has failed.
C22_ConnectOnlyWithScanCancelled ==
    cen.connectsBy > 0 =>
       (cen.last = "DISC_CONNECTABLE" /\ ~cen.scanAtConnect)

HexDigits ==
    <<"0", "1", "2", "3", "4", "5", "6", "7",
      "8", "9", "A", "B", "C", "D", "E", "F">>

\* %02X of a uint8_t: two upper-case hexadecimal digits, zero padded.
Fmt02X(v) == <<HexDigits[(v \div 16) + 1], HexDigits[(v % 16) + 1]>>

\* snprintf(str, n, ...): at most n - 1 characters of the formatted text.
snprintf(text, n) ==
    SubSeq(text, 1, IF Len(text) < n THEN Len(text) ELSE n - 1)

\* addr_to_string with the bytes in memory order.
addr_to_string_Forward(a, str_len) ==
    snprintf(Fmt02X(a[1]) \o <<":">> \o Fmt02X(a[2]) \o <<":">> \o
             Fmt02X(a[3]) \o <<":">> \o Fmt02X(a[4]) \o <<":">> \o
             Fmt02X(a[5]) \o <<":">> \o Fmt02X(a[6]), str_len)

\* addr_to_string of the peripheral: addr[5] first, addr[0] last (a[6]..a[1]).
addr_to_string(a, str_len) ==
    snprintf(Fmt02X(a[6]) \o <<":">> \o Fmt02X(a[5]) \o <<":">> \o
             Fmt02X(a[4]) \o <<":">> \o Fmt02X(a[3]) \o <<":">> \o
             Fmt02X(a[2]) \o <<":">> \o Fmt02X(a[1]), str_len)

\* addr_to_string of the central.
cen_addr_to_string(a, str_len) ==
    snprintf(Fmt02X(a[6]) \o <<":">> \o Fmt02X(a[5]) \o <<":">> \o
             Fmt02X(a[4]) \o <<":">> \o Fmt02X(a[3]) \o <<":">> \o
             Fmt02X(a[2]) \o <<":">> \o Fmt02X(a[1]), str_len)

nonCodecVars ==
    <<stationVars, mainVars, sideVars, hist, bleVars, centralVars, storageVars,
      raceVars>>

\* The host reports an address that differs from the last one in one byte.
ReceiveAddr ==
    /\ \E i \in 1..6, b \in ByteSamples : addr' = [addr EXCEPT ![i] = b]
    /\ addr_str' = <<>>
    /\ cen_addr_str' = <<>>
    /\ UNCHANGED nonCodecVars

\* The peripheral formats the address for a log line.
PeripheralFormatAddr ==
    /\ addr_str = <<>>
    /\ addr_str' = addr_to_string(addr, AddrStrSize)
    /\ UNCHANGED <<addr, cen_addr_str, nonCodecVars>>

\* The central formats the address for a log line.
CentralFormatAddr ==
    /\ cen_addr_str = <<>>
    /\ cen_addr_str' = cen_addr_to_string(addr, AddrStrSize)
    /\ UNCHANGED <<addr, addr_str, nonCodecVars>>

NextAddr ==
    \/ ReceiveAddr
    \/ PeripheralFormatAddr
    \/ CentralFormatAddr

SpecAddr == Init /\ [][NextAddr]_vars

\* The value of an upper-case hexadecimal digit; 16 for any other character.
UpperHexValue(c) ==
    CASE c = "0" -> 0  [] c = "1" -> 1  [] c = "2" -> 2  [] c = "3" -> 3
      [] c = "4" -> 4  [] c = "5" -> 5  [] c = "6" -> 6  [] c = "7" -> 7
      [] c = "8" -> 8  [] c = "9" -> 9  [] c = "A" -> 10 [] c = "B" -> 11
      [] c = "C" -> 12 [] c = "D" -> 13 [] c = "E" -> 14 [] c = "F" -> 15
      [] OTHER -> 16

\* str is the text the claim describes for the bytes a: 17 characters, a
\* colon at every third place, and the i-th pair of upper-case digits reads
\* as byte a[6 - i] (b[5] first, b[0] last).
IsReversedHex(str, a) ==
    /\ Len(str) = 17
    /\ \A k \in 1..5 : str[3 * k] = ":"
    /\ \A i \in 0..5 :
          /\ UpperHexValue(str[3 * i + 1]) < 16
          /\ UpperHexValue(str[3 * i + 2]) < 16
          /\ 16 * UpperHexValue(str[3 * i + 1]) + UpperHexValue(str[3 * i + 2])
                = a[6 - i]

\* C19: addr_to_string writes the six bytes as six two-digit upper-case
\* hexadecimal numbers separated by colons, last byte first; the bytes
\* 01 02 03 04 05 06 give "06:05:04:03:02:01"; the peripheral's and the
\* central's copy give the same text for the same bytes.
C19_AddrToString ==
    /\ addr_str /= <<>> => IsReversedHex(addr_str, addr)
    /\ cen_addr_str /= <<>> => IsReversedHex(cen_addr_str, addr)
    /\ (addr_str /= <<>> /\ addr = <<1, 2, 3, 4, 5, 6>>) =>
          addr_str = <<"0", "6", ":", "0", "5", ":", "0", "4", ":",
                       "0", "3", ":", "0", "2", ":", "0", "1">>
    /\ (addr_str /= <<>> /\ cen_addr_str /= <<>>) => addr_str = cen_addr_str

\* Both copies have formatted AB:..:0A, an address with letters and a
\* padded digit.
C19_Witness ==
    /\ addr[6] = 171
    /\ addr[1] = 10
    /\ addr[3] = 3
    /\ addr_str /= <<>>
    /\ cen_addr_str = addr_str

\* ======================================= storage manager (Storage_Manager.c)
nonStorageVars ==
    <<stationVars, mainVars, sideVars, hist, bleVars, centralVars, codecVars,
      raceVars>>

\* Values the callers hand to storage_manager_save_string: the empty
\* string, a short one, the longest that fits the buffer, and one longer.
SaveInputs ==
    {EmptyString, Str("a", 1), Str("b", STRING_MAX_LEN - 1),
     Str("c", STRING_MAX_LEN)}

\* strncpy(s_stored_string, value, STRING_MAX_LEN - 1) and the NUL stored
\* after it.
strncpy(value, n) == IF value.len > n THEN Str(value.id, n) ELSE value

\* What is committed in flash, read as a string.
FlashString == IF flash = NoKey THEN EmptyString ELSE flash

StoStep(name, cOk) ==
    sto' = [sto EXCEPT !.n = @ + 1, !.last = name, !.commitOk = cOk]

\* storage_manager_init() after NVS itself is up: nvs_open(READONLY) fails
\* when the namespace does not exist yet and may fail otherwise; nvs_get_str
\* answers NOT_FOUND without a key, INVALID_LENGTH for a value that does not
\* fit the buffer, and may fail otherwise.  Every failure empties the buffer.
storage_manager_init ==
    /\ sto.n < MaxStorageOps
    /\ \E openOk \in BOOLEAN, getOk \in BOOLEAN :
          s_stored_string' =
             IF flash = NoKey \/ ~openOk \/ ~getOk THEN EmptyString
             ELSE IF flash.len + 1 > STRING_MAX_LEN THEN EmptyString
             ELSE flash
    /\ StoStep("init", TRUE)
    /\ UNCHANGED <<flash, nonStorageVars>>

\* storage_manager_save_string(value): nvs_open, nvs_set_str, nvs_commit.
\* The buffer is written only after a commit that succeeded; a set whose
\* commit fails may or may not have reached the flash (landed).
storage_manager_save_string ==
    /\ sto.n < MaxStorageOps
    /\ \E value \in SaveInputs, openOk \in BOOLEAN, setOk \in BOOLEAN,
          commitOk \in BOOLEAN, landed \in BOOLEAN :
          IF ~openOk \/ ~setOk
             THEN /\ UNCHANGED <<s_stored_string, flash>>
                  /\ StoStep("save", TRUE)
             ELSE IF commitOk
                     THEN /\ flash' = value
                          /\ s_stored_string' = strncpy(value, STRING_MAX_LEN - 1)
                          /\ StoStep("save", TRUE)
                     ELSE /\ flash' = (IF landed THEN value ELSE flash)
                          /\ UNCHANGED s_stored_string
                          /\ StoStep("save", FALSE)
    /\ UNCHANGED nonStorageVars

\* storage_manager_delete_string(): nvs_open, nvs_erase_key (NOT_FOUND is
\* not an error), nvs_commit, whose failure is only logged; the buffer is
\* emptied whenever the erase step did not fail.
storage_manager_delete_string ==
    /\ sto.n < MaxStorageOps
    /\ \E openOk \in BOOLEAN, eraseOk \in BOOLEAN, commitOk \in BOOLEAN,
          landed \in BOOLEAN :
          IF ~openOk \/ (flash /= NoKey /\ ~eraseOk)
             THEN /\ UNCHANGED <<s_stored_string, flash>>
                  /\ StoStep("delete", TRUE)
             ELSE /\ flash' = (IF commitOk \/ landed THEN NoKey ELSE flash)
                  /\ s_stored_string' = EmptyString
                  /\ StoStep("delete", commitOk)
    /\ UNCHANGED nonStorageVars

NextStorage ==
    \/ storage_manager_init
    \/ storage_manager_save_string
    \/ storage_manager_delete_string

SpecStorage == Init /\ [][NextStorage]_vars

\* C21 as claimed: whatever calls were made and whichever NVS steps failed
\* in them, the buffer storage_manager_get_string returns holds the value
\* committed in flash, the empty string when no key is stored.
C21_RamMirrorsFlash == s_stored_string = FlashString

\* ================== peripheral, store by store (components/BLE/BLE.c)
\* s_is_connected and s_conn_handle are plain statics written by the host
\* task and read by whatever task calls the public API, with no lock between
\* them.  SpecRace runs the GAP handler and the reset callback one store at
\* a time (gapPc) and lets the calling task run between any two stores.
nonRaceVars ==
    <<stationVars, mainVars, sideVars, hist, centralVars, codecVars,
      storageVars>>

\* Bookkeeping when the host task enters a handler, and when it leaves it.
BleEnter ==
    [ble EXCEPT !.wasConnected = s_is_connected,
                !.wasHandle = s_conn_handle,
                !.wasAdv = advActive]

BleLeave(name, r) ==
    ble' = [ble EXCEPT !.n = @ + 1, !.last = name,
                       !.afterStop = FALSE,
                       !.afterReset = (ble.last = "reset"),
                       !.setFieldsBy = r.setFields,
                       !.advStartsBy = r.advStarts,
                       !.rc = r.rc]

\* The host task is between two events (and the run may still grow).
HostIdle == gapPc = "idle" /\ ble.n < MaxRaceEvents

\* BLE_GAP_EVENT_CONNECT, status 0, first store: s_conn_handle.
ConnectStoreHandle ==
    /\ CanDeliver /\ HostIdle
    /\ \E h \in ConnHandles : s_conn_handle' = h
    /\ advActive' = FALSE
    /\ ble' = BleEnter
    /\ gapPc' = "connect_flag"
    /\ UNCHANGED <<s_is_connected, host, apiPc, obs, nonRaceVars>>

\* ... second store: s_is_connected.
ConnectStoreFlag ==
    /\ gapPc = "connect_flag"
    /\ s_is_connected' = TRUE
    /\ BleLeave("CONNECT_OK", NoStackCall(advActive))
    /\ gapPc' = "idle"
    /\ UNCHANGED <<s_conn_handle, host, advActive, apiPc, obs, nonRaceVars>>

\* BLE_GAP_EVENT_CONNECT, status not 0: one store and the restart.
ConnectFailed ==
    /\ CanDeliver /\ HostIdle
    /\ \E fOk \in BOOLEAN, sOk \in BOOLEAN :
          LET r == start_advertising(FALSE, fOk, sOk) IN
          /\ s_is_connected' = FALSE
          /\ advActive' = r.adv
          /\ BleStep("CONNECT_FAILED", r)
    /\ UNCHANGED <<s_conn_handle, host, gapPc, apiPc, obs, nonRaceVars>>

\* BLE_GAP_EVENT_ADV_COMPLETE, which stores neither variable.
RaceAdvComplete ==
    /\ HostIdle
    /\ GapAdvComplete

\* BLE_GAP_EVENT_DISCONNECT, first store: s_conn_handle.
DisconnectStoreHandle ==
    /\ CanDeliver /\ HostIdle
    /\ s_conn_handle' = BLE_HS_CONN_HANDLE_NONE
    /\ ble' = BleEnter
    /\ gapPc' = "disconnect_flag"
    /\ UNCHANGED <<s_is_connected, host, advActive, apiPc, obs, nonRaceVars>>

\* ... second store: s_is_connected, then start_advertising.
DisconnectStoreFlag ==
    /\ gapPc = "disconnect_flag"
    /\ \E fOk \in BOOLEAN, sOk \in BOOLEAN :
          LET r == start_advertising(advActive, fOk, sOk) IN
          /\ s_is_connected' = FALSE
          /\ advActive' = r.adv
          /\ BleLeave("DISCONNECT", r)
    /\ gapPc' = "idle"
    /\ UNCHANGED <<s_conn_handle, host, apiPc, obs, nonRaceVars>>

\* ble_peripheral_on_reset, first store: s_is_connected.
ResetStoreFlag ==
    /\ host = "synced" /\ HostIdle
    /\ ble.n < MaxBleEvents
    /\ host' = "started"
    /\ s_is_connected' = FALSE
    /\ advActive' = FALSE
    /\ ble' = BleEnter
    /\ gapPc' = "reset_handle"
    /\ UNCHANGED <<s_conn_handle, apiPc, obs, nonRaceVars>>

\* ... second store: s_conn_handle.
ResetStoreHandle ==
    /\ gapPc = "reset_handle"
    /\ s_conn_handle' = HandleAfterReset(s_conn_handle)
    /\ BleLeave("reset", NoStackCall(FALSE))
    /\ gapPc' = "idle"
    /\ UNCHANGED <<s_is_connected, host, advActive, apiPc, obs, nonRaceVars>>

\* The sync callback, which stores neither variable.
RaceSync ==
    /\ HostIdle
    /\ ble_peripheral_on_sync

\* A task reads the connection state: ble_peripheral_is_connected() and the
\* handle, as the guard of ble_peripheral_disconnect does.
ReadConnectionState ==
    /\ apiPc = "idle"
    /\ obs' = [obs EXCEPT !.read = TRUE,
                          !.seenConn = s_is_connected,
                          !.seenHandle = s_conn_handle]
    /\ UNCHANGED <<bleVars, gapPc, apiPc, nonRaceVars>>

\* ble_peripheral_disconnect(), the guard: -1 when the flag is clear or the
\* handle is NONE; otherwise the call goes on, with the handle it has just
\* loaded still in a register.
DisconnectGuard ==
    /\ apiPc = "idle"
    /\ IF ~s_is_connected \/ s_conn_handle = BLE_HS_CONN_HANDLE_NONE
          THEN /\ obs' = [obs EXCEPT !.last = "disconnect", !.ret = "-1",
                                     !.termCalled = FALSE]
               /\ UNCHANGED apiPc
          ELSE /\ obs' = [obs EXCEPT !.last = "disconnect", !.ret = "none",
                                     !.termCalled = FALSE,
                                     !.reg = s_conn_handle]
               /\ apiPc' = "terminate"
    /\ UNCHANGED <<bleVars, gapPc, nonRaceVars>>

\* ... the call ble_gap_terminate(s_conn_handle, ...): the statics are not
\* volatile, so the build passes either the value loaded for the guard or
\* the value the variable holds now; ok is the result of the call.
DisconnectTerminate ==
    /\ apiPc = "terminate"
    /\ \E h \in {obs.reg, s_conn_handle}, ok \in BOOLEAN :
          obs' = [obs EXCEPT !.termCalled = TRUE, !.termHandle = h,
                             !.ret = IF ok THEN "0" ELSE "ERR"]
    /\ apiPc' = "idle"
    /\ UNCHANGED <<bleVars, gapPc, nonRaceVars>>

\* ble_peripheral_start_advertising(), the guard: -1 when the flag is set.
StartAdvGuard ==
    /\ apiPc = "idle"
    /\ CanDeliver
    /\ IF s_is_connected
          THEN /\ obs' = [obs EXCEPT !.last = "start", !.ret = "-1"]
               /\ UNCHANGED apiPc
          ELSE /\ obs' = [obs EXCEPT !.last = "start", !.ret = "none"]
               /\ apiPc' = "start_advertising"
    /\ UNCHANGED <<bleVars, gapPc, nonRaceVars>>

\* ... the call of start_advertising(), made whatever the host task has
\* stored since the guard.
StartAdvCall ==
    /\ apiPc = "start_advertising"
    /\ \E fOk \in BOOLEAN, sOk \in BOOLEAN :
          LET r == start_advertising(advActive, fOk, sOk) IN
          /\ advActive' = r.adv
          /\ obs' = [obs EXCEPT !.ret = r.rc,
                                !.advStartConnected = @ \/ s_is_connected]
    /\ apiPc' = "idle"
    /\ UNCHANGED <<s_is_connected, s_conn_handle, host, ble, gapPc, nonRaceVars>>

NextRace ==
    \/ PeripheralInit
    \/ RaceSync
    \/ RaceAdvComplete
    \/ StartAdvGuard
    \/ StartAdvCall
    \/ ConnectStoreHandle
    \/ ConnectStoreFlag
    \/ ConnectFailed
    \/ DisconnectStoreHandle
    \/ DisconnectStoreFlag
    \/ ResetStoreFlag
    \/ ResetStoreHandle
    \/ ReadConnectionState
    \/ DisconnectGuard
    \/ DisconnectTerminate

SpecRace == Init /\ [][NextRace]_vars

\* C25 as claimed: whenever a task reads the connection state, between any
\* two stores of the host task, it sees s_is_connected true exactly when
\* s_conn_handle is not BLE_HS_CONN_HANDLE_NONE.
C25_ReadersSeeCommitted ==
    obs.read =>
       (obs.seenConn <=> obs.seenHandle /= BLE_HS_CONN_HANDLE_NONE)

\* C26 as claimed: no advertise-start is issued while s_is_connected is
\* true: the public start function never reaches start_advertising() with
\* the flag set, ADV_COMPLETE while connected calls nothing, the sync
\* callback runs with the flag false, and after a failed connect or a
\* disconnect has restarted advertising the flag is false.
C26_NoAdvStartWhileConnected ==
    /\ ~obs.advStartConnected
    /\ (ble.last = "ADV_COMPLETE" /\ ble.wasConnected)
          => (ble.setFieldsBy = 0 /\ ble.advStartsBy = 0)
    /\ ble.last = "sync" => ~ble.wasConnected
    /\ ble.last \in {"CONNECT_FAILED", "DISCONNECT"} => ~s_is_connected

\* C27 as claimed: ble_peripheral_disconnect() that returns -1 has not
\* called ble_gap_terminate, and whenever it calls ble_gap_terminate, also
\* with a Disconnect event handled between its guard and the call, the
\* handle it passes is not BLE_HS_CONN_HANDLE_NONE.
C27_TerminateHandleLive ==
    /\ (obs.last = "disconnect" /\ obs.ret = "-1") => ~obs.termCalled
    /\ obs.termCalled => obs.termHandle /= BLE_HS_CONN_HANDLE_NONE

\* ================================================== either role (SpecBle)
\* Both components are named BLE and define the same statics, so a firmware
\* image holds one of them: the role that is initialised first is the only
\* one of the run.
PeripheralImage ==
    /\ cenHost = "off"
    /\ PeripheralInit

CentralImage ==
    /\ host = "off"
    /\ ble_central_init

NextBle ==
    \/ PeripheralImage
    \/ ble_peripheral_on_sync
    \/ ble_peripheral_on_reset
    \/ GapConnect
    \/ GapDisconnect
    \/ GapConnUpdate
    \/ GapAdvComplete
    \/ GapOther
    \/ ble_peripheral_start_advertising
    \/ ble_peripheral_stop_advertising
    \/ CentralImage
    \/ ble_central_on_sync
    \/ ble_central_on_reset
    \/ GapDisc
    \/ CenGapConnect
    \/ CenGapDisconnect
    \/ GapDiscComplete
    \/ CenGapConnUpdate
    \/ CenGapOther
    \/ CallStartScan
    \/ ble_central_stop_scan

SpecBle == Init /\ [][NextBle]_vars

\* C14: a host reset, in whatever state it arrives, leaves the role Idle
\* (host not synced, nothing active in it) with s_is_connected false and
\* s_conn_handle NONE, and the reset callback calls no discovery function;
\* when discovery is active after the sync callback that follows, it is that
\* callback which started it.
C14_ResetToIdle ==
    /\ ble.last = "reset" =>
          /\ host = "started" /\ ~advActive
          /\ ~s_is_connected /\ s_conn_handle = BLE_HS_CONN_HANDLE_NONE
          /\ ble.setFieldsBy = 0 /\ ble.advStartsBy = 0
    /\ cen.last = "reset" =>
          /\ cenHost = "started" /\ ~scanActive /\ ~connPending
          /\ ~cen_is_connected /\ cen_conn_handle = BLE_HS_CONN_HANDLE_NONE
          /\ cen.discsBy = 0 /\ cen.cancelsBy = 0 /\ cen.connectsBy = 0
    /\ (ble.last = "sync" /\ ble.afterReset /\ advActive) =>
          (~ble.wasAdv /\ ble.advStartsBy = 1)
    /\ (cen.last = "sync" /\ cen.afterReset /\ scanActive) =>
          (~cen.wasScan /\ cen.discsBy = 1)

\* A reset that arrived with a link up and a handle stored.
C14_Witness ==
    /\ ble.last = "reset"
    /\ ble.wasConnected
    /\ ble.wasHandle /= BLE_HS_CONN_HANDLE_NONE

\* C15 as claimed: a start-discovery call made while a discovery of the
\* role is active returns an error, issues no discovery action to the host
\* and leaves the active discovery and the role state unchanged.
C15_SecondStartNotIssued ==
    /\ (ble.last = "api_start" /\ ble.wasAdv /\ ~ble.wasConnected) =>
          /\ ble.rc /= "0"
          /\ ble.setFieldsBy = 0 /\ ble.advStartsBy = 0
          /\ advActive
    /\ (cen.last = "api_start" /\ cen.wasScan) =>
          /\ cen.rc /= "0"
          /\ cen.discsBy = 0
          /\ scanActive

\* C15 amended: such a call is passed on to the host (the function has no
\* guard of its own against an active discovery), the host rejects it, the
\* function returns that non-zero code, and the active discovery,
\* s_is_connected and s_conn_handle are unchanged; the same holds for the
\* restart the DISCONNECT branch issues while a discovery is active.
C15_SecondStartRejectedByHost ==
    /\ (ble.last = "api_start" /\ ble.wasAdv /\ ~ble.wasConnected) =>
          /\ ble.rc \in {"ERR", "EALREADY"}
          /\ ble.setFieldsBy = 1 /\ ble.advStartsBy <= 1
          /\ advActive
          /\ s_is_connected = ble.wasConnected
          /\ s_conn_handle = ble.wasHandle
    /\ (ble.last = "DISCONNECT" /\ ble.wasAdv) =>
          (ble.rc \in {"ERR", "EALREADY"} /\ ble.setFieldsBy = 1 /\ advActive)
    /\ (cen.last \in {"api_start", "DISCONNECT"} /\ cen.wasScan) =>
          (cen.rc \in {"EBUSY", "EALREADY"} /\ cen.discsBy = 1 /\ scanActive)
    /\ (cen.last = "api_start" /\ cen.wasScan) =>
          /\ cen_is_connected = cen.wasConnected
          /\ cen_conn_handle = cen.wasHandle
          /\ connPending = cen.wasPending

\* ble_peripheral_start_advertising called while advertising, with the
\* host's BLE_HS_EALREADY as its result.
C15_Witness ==
    /\ ble.last = "api_start"
    /\ ble.wasAdv
    /\ ~ble.wasConnected
    /\ ble.advStartsBy = 1
    /\ ble.rc = "EALREADY"

\* C16: cancelling discovery is idempotent.  A stop call made with no
\* discovery active returns 0 (the host's BLE_HS_EALREADY is not an error); a
\* stop call that follows a stop call which returned 0 returns 0 and finds
\* and leaves no discovery active; a non-zero result is a host error other
\* than BLE_HS_EALREADY, met while a discovery was active; a result of 0
\* leaves no discovery active; s_is_connected and s_conn_handle are never
\* changed by the call.
C16_StopIdempotent ==
    /\ ble.last = "api_stop" =>
          /\ ~ble.wasAdv => (ble.rc = "0" /\ ~advActive)
          /\ ble.afterStop => (~ble.wasAdv /\ ble.rc = "0" /\ ~advActive)
          /\ ble.rc /= "0" => (ble.rc = "ERR" /\ ble.wasAdv)
          /\ ble.rc = "0" => ~advActive
          /\ s_is_connected = ble.wasConnected
          /\ s_conn_handle = ble.wasHandle
    /\ cen.last = "api_stop" =>
          /\ ~cen.wasScan => (cen.rc = "0" /\ ~scanActive)
          /\ cen.afterStop => (~cen.wasScan /\ cen.rc = "0" /\ ~scanActive)
          /\ cen.rc /= "0" => (cen.rc = "ERR" /\ cen.wasScan)
          /\ cen.rc = "0" => ~scanActive
          /\ cen_is_connected = cen.wasConnected
          /\ cen_conn_handle = cen.wasHandle
          /\ connPending = cen.wasPending

\* ble_central_stop_scan called twice in a row with a link up, the first
\* call having returned 0.
C16_Witness ==
    /\ cen.last = "api_stop"
    /\ cen.afterStop
    /\ cen.rc = "0"
    /\ cen_is_connected

\* ============================================ the three handlers, each alone
\* wifi_event_handler, ble_peripheral_gap_event and ble_central_gap_event
\* share no state.  SpecHandlers runs one of them per behaviour: the station
\* as in Spec, or one BLE role as in SpecBle, started from the initial state.
StationAlone ==
    /\ host = "off"
    /\ cenHost = "off"
    /\ AppMainBoot

PeripheralAlone ==
    /\ mainPc = "boot"
    /\ PeripheralImage

PeripheralSyncAlone ==
    /\ mainPc = "boot"
    /\ ble_peripheral_on_sync

CentralAlone ==
    /\ mainPc = "boot"
    /\ CentralImage

NextHandlers ==
    \/ StationAlone
    \/ WifiBringUp
    \/ WaitCall
    \/ WifiManagerReturn
    \/ AppMainBleInit
    \/ OnStaStart
    \/ OnStaDisconnected
    \/ OnGotIp
    \/ GotIpLed
    \/ GotIpWeb
    \/ GotIpSetBit
    \/ OnOtherWifiEvent
    \/ PeripheralAlone
    \/ PeripheralSyncAlone
    \/ ble_peripheral_on_reset
    \/ GapConnect
    \/ GapDisconnect
    \/ GapConnUpdate
    \/ GapAdvComplete
    \/ GapOther
    \/ ble_peripheral_start_advertising
    \/ ble_peripheral_stop_advertising
    \/ CentralAlone
    \/ ble_central_on_sync
    \/ ble_central_on_reset
    \/ GapDisc
    \/ CenGapConnect
    \/ CenGapDisconnect
    \/ GapDiscComplete
    \/ CenGapConnUpdate
    \/ CenGapOther
    \/ CallStartScan
    \/ ble_central_stop_scan

SpecHandlers == Init /\ [][NextHandlers]_vars

\* C24: the events no branch handles, and the connection-update event, are
\* no-ops.  In both BLE handlers they return 0, change neither
\* s_is_connected nor s_conn_handle nor what is active in the host, and
\* call no GAP function; in the Wi-Fi handler a WIFI_EVENT other than
\* STA_START and STA_DISCONNECTED changes neither s_retry_num nor the bits
\* and calls neither esp_wifi_connect nor xEventGroupSetBits.
C24_UnhandledEventsAreNoOps ==
    /\ ble.last \in {"CONN_UPDATE", "OTHER"} =>
          /\ ble.rc = "0"
          /\ s_is_connected = ble.wasConnected
          /\ s_conn_handle = ble.wasHandle
          /\ advActive = ble.wasAdv
          /\ ble.setFieldsBy = 0 /\ ble.advStartsBy = 0
    /\ cen.last \in {"CONN_UPDATE", "OTHER"} =>
          /\ cen.rc = "0"
          /\ cen_is_connected = cen.wasConnected
          /\ cen_conn_handle = cen.wasHandle
          /\ scanActive = cen.wasScan
          /\ connPending = cen.wasPending
          /\ cen.cancelsBy = 0 /\ cen.connectsBy = 0 /\ cen.discsBy = 0
    /\ hist.last = "OTHER" =>
          /\ s_retry_num = hist.before
          /\ bits = hist.bitsBefore
          /\ hist.connectsBy = 0 /\ hist.failSetsBy = 0

\* An unhandled GAP event delivered to the peripheral with a link up.
C24_Witness ==
    /\ ble.last = "OTHER"
    /\ s_is_connected
    /\ s_conn_handle /= BLE_HS_CONN_HANDLE_NONE

====
